---- MODULE Spec2Model ----
(***************************************************************************)
(* The asynchronous processing pipeline of the questionnaire platform:     *)
(* process_questionnaire_response (dispatch), execute_processor (execute)  *)
(* and requeue_processing (requeue) of api/tasks.py, the triggers of       *)
(* api/routers, the processing_results table and the two task queues.      *)
(*                                                                         *)
(* Every task is split at its database round trips (select, commit) and at *)
(* its queue writes, the points where another worker process can act.      *)
(* A commit writes the columns the task assigned, to the row with the      *)
(* object's primary key.                                                   *)
(***************************************************************************)
EXTENDS Integers, Sequences, FiniteSets, Bags, TLC

(* ------------------------------------------------------------------ *)
(* Bounds and the fixed external data                                  *)
(* ------------------------------------------------------------------ *)

\* number of external events (completions, queue-all, requeues, admin edits,
\* redeliveries) in one behaviour
MaxOps == 2

ProcIds == {1, 2}
QuestionIds == {1, 2, 3}
\* questionnaire_responses: the one response of the questionnaire
ResponseIds == {1}
\* response ids that have no questionnaire_responses row when their dispatch
\* task runs: the row was removed after the message was sent
StaleResponseIds == {2}
\* the response ids a dispatch message can carry
DispatchIds == ResponseIds \cup StaleResponseIds
DispWorkers == {1, 2}
ExecWorkers == {1, 2}

\* question_processor_mappings: processor 1 on questions {1,2}, processor 2
\* on questions {2,3}
Mappings == {<<1, 1>>, <<2, 1>>, <<2, 2>>, <<3, 2>>}

\* Processor.post_processing_code is set: both processors have code
post_processing_code == [p \in ProcIds |-> TRUE]

\* Processor.interpreter: processor 2 keeps the default, InterpreterType.NONE
interpreter == [p \in ProcIds |-> IF p = 1 THEN "python" ELSE "none"]

\* what the post-processing code of a processor prints when it is run:
\* "json", "not_json", or "exit_nonzero" for a failing script
script_behaviour == [p \in ProcIds |-> "not_json"]

\* a stored value of an Optional column, or None
Stored(v) == [is_set |-> TRUE, value |-> v]
Unset == [is_set |-> FALSE, value |-> 0]

\* Processor.llm_temperature, in tenths: processor 1 stores 0, processor 2 nothing
llm_temperature == [p \in ProcIds |-> IF p = 1 THEN Stored(0) ELSE Unset]

\* Processor.llm_max_tokens: processor 1 stores 500, processor 2 nothing
llm_max_tokens == [p \in ProcIds |-> IF p = 1 THEN Stored(500) ELSE Unset]

\* the defaults written in execute_processor: 0.7 (in tenths) and 2000
DefaultTemperature == 7
DefaultMaxTokens == 2000

\* Question.text when the response was answered, which is the question_text
\* stored on every QuestionResponse, and the text after an edit
AnsweredText == "text as answered"
EditedText == "text after edit"

\* QuestionnaireResponse.questionnaire_id and user_id
questionnaire_id == [rid \in ResponseIds |-> 1]
user_id == [rid \in ResponseIds |-> 1]

\* Processor.is_active of the two processors when the questionnaire is answered
ActiveChoices == {[p \in ProcIds |-> TRUE], [p \in ProcIds |-> p = 1]}

\* the answers a response may hold (question_responses.question_id)
AnsweredChoices == {{1, 2, 3}, {1}}

\* the order in which a SELECT without ORDER BY returns its rows
RowOrders == {"asc", "desc"}

NULL == "null"

VARIABLES
    processors,   \* processors table: id -> [exists, is_active]
    answered,     \* question ids the response has a QuestionResponse for
    results,      \* processing_results table: id -> row
    next_id,      \* the id sequence of processing_results
    dispatchQ,    \* queued process_questionnaire_response messages (bag of response ids)
    execQ,        \* queued execute_processor messages (bag of result ids)
    disp,         \* the workers running process_questionnaire_response
    exec,         \* the workers running execute_processor
    gen_log,      \* result id -> what the last generate_with_deepseek call for it returned
    row_order,    \* the order in which this database returns unordered SELECTs
    grouped,      \* what the question query and the grouping give on the tables as they are
    ops,          \* external events so far, counted by kind
    rq,           \* the last requeue_processing run: what it saw and left
    questions,    \* questions table: id -> text
    questionnaire_responses,    \* ids of the rows of this table
    reply         \* what the step just taken returned to its caller

vars == <<processors, answered, results, next_id, dispatchQ, execQ, disp, exec, gen_log, row_order,
          grouped, ops, rq, questions,
          questionnaire_responses, reply>>

(* ------------------------------------------------------------------ *)
(* Helpers                                                             *)
(* ------------------------------------------------------------------ *)

Min(S) == CHOOSE m \in S : \A x \in S : m <= x

RECURSIVE AscSeq(_)
AscSeq(S) == IF S = {} THEN <<>> ELSE <<Min(S)>> \o AscSeq(S \ {Min(S)})

Reverse(s) == [i \in 1..Len(s) |-> s[Len(s) + 1 - i]]

Ordered(S, order) == IF order = "asc" THEN AscSeq(S) ELSE Reverse(AscSeq(S))

Repeat(x, n) == [i \in 1..n |-> x]

RECURSIVE Flatten(_)
Flatten(ss) == IF ss = <<>> THEN <<>> ELSE Head(ss) \o Flatten(Tail(ss))

SeqToSet(s) == {s[i] : i \in 1..Len(s)}

IdleDisp == [pc |-> "idle", response_id |-> 0, groups |-> <<>>, existing |-> 0, result_id |-> 0,
             skipped |-> {}]
NoContext == [questions |-> <<>>, questionnaire_id |-> 0, user_id |-> 0]
NoCall == [temperature |-> 0, max_tokens |-> 0]
IdleExec == [pc |-> "idle", result_id |-> 0, context |-> NoContext, call |-> NoCall]

(* ------------------------------------------------------------------ *)
(* Dispatch: grouping of the questions by processor                    *)
(* ------------------------------------------------------------------ *)

\* Processor rows the join of the question query can reach, in the processors
\* table procs
Joinable(procs, p) == procs[p].exists /\ procs[p].is_active

ActiveProcessor(p) == Joinable(processors, p)

\* select(Question).join(processor_mappings).join(Processor).where(is_active):
\* one result row per (question, mapping to an active processor); the entity
\* rows are not made unique
questions_with_processors(procs, order) ==
    LET qs == Ordered(QuestionIds, order)
        n(q) == Cardinality({p \in ProcIds : <<q, p>> \in Mappings /\ Joinable(procs, p)})
    IN  Flatten([i \in 1..Len(qs) |-> Repeat(qs[i], n(qs[i]))])

\* question.processor_mappings: every mapping row of the question
processor_mappings(q, order) == Ordered({p \in ProcIds : <<q, p>> \in Mappings}, order)

\* processor_questions[processor_id].append(question), creating the key first
AddQuestion(dict, p, q) ==
    IF \E i \in 1..Len(dict) : dict[i].processor_id = p
    THEN [i \in 1..Len(dict) |->
            IF dict[i].processor_id = p
            THEN [dict[i] EXCEPT !.questions = Append(@, q)]
            ELSE dict[i]]
    ELSE Append(dict, [processor_id |-> p, questions |-> <<q>>])

RECURSIVE AddMappings(_, _, _)
AddMappings(dict, ps, q) ==
    IF ps = <<>> THEN dict ELSE AddMappings(AddQuestion(dict, Head(ps), q), Tail(ps), q)

RECURSIVE GroupRows(_, _, _)
GroupRows(rows, order, dict) ==
    IF rows = <<>> THEN dict
    ELSE GroupRows(Tail(rows), order,
                   AddMappings(dict, processor_mappings(Head(rows), order), Head(rows)))

\* the dict processor_questions, in insertion order
processor_questions(procs, order) == GroupRows(questions_with_processors(procs, order), order, <<>>)

\* the rows of the question query and the groups made of them, on the
\* processors table procs; the variable grouped holds this value for the
\* table as it is
Grouped(procs) ==
    [rows |-> questions_with_processors(procs, row_order),
     groups |-> processor_questions(procs, row_order)]

(* ------------------------------------------------------------------ *)
(* The processing_results table                                        *)
(* ------------------------------------------------------------------ *)

\* select(ProcessingResult).where(response_id, processor_id)
RowsFor(rid, p) ==
    {i \in DOMAIN results :
        results[i].questionnaire_response_id = rid /\ results[i].processor_id = p}

RowsOfResponse(rid) == {i \in DOMAIN results : results[i].questionnaire_response_id = rid}

\* mutant: the row is created as pending
NewResult_Pending(rid, p, qs) ==
    [questionnaire_response_id |-> rid, processor_id |-> p,
     processor_version |-> "deepseek-r1@v0.1", status |-> "pending",
     question_ids |-> qs, prompt |-> NULL, raw_output |-> NULL,
     processed_output |-> NULL, error_message |-> NULL]

\* ProcessingResult(...) as dispatch constructs it
NewResult(rid, p, qs) ==
    [questionnaire_response_id |-> rid, processor_id |-> p,
     processor_version |-> "deepseek-r1@v0.1", status |-> "processing",
     question_ids |-> qs, prompt |-> NULL, raw_output |-> NULL,
     processed_output |-> NULL, error_message |-> NULL]

\* the in-place update of an existing row
UpdatedResult(row, qs) == [row EXCEPT !.status = "processing", !.question_ids = qs]

\* mutant: the completed check is missing
SkipExisting_Never(existing) == FALSE

\* "if existing_result and existing_result.status == 'completed': continue"
SkipExisting(existing) == existing # 0 /\ results[existing].status = "completed"

Terminal(st) == st \in {"completed", "failed"}

(* ------------------------------------------------------------------ *)
(* Initial state                                                       *)
(* ------------------------------------------------------------------ *)

\* the two triggers of a dispatch count as one kind
OpKinds == {"trigger", "requeue", "delete_processor", "redeliver", "edit_question", "delete_response"}

RECURSIVE Sum(_, _)
Sum(f, S) == IF S = {} THEN 0 ELSE LET x == CHOOSE x \in S : TRUE IN f[x] + Sum(f, S \ {x})

OpsTotal == Sum(ops, OpKinds)

\* one more external event of this kind
Count(kind) == ops' = [ops EXCEPT ![kind] = @ + 1]

\* a step that returns nothing, or whose return value nothing looks at
NoReply == [ret |-> "none", count |-> 0]

NoRequeue == [pid |-> -1, clean |-> FALSE, all_completed |-> FALSE, mark |-> 0, after |-> <<>>, n |-> 0]

Init ==
    /\ \E act \in ActiveChoices :
          processors = [p \in ProcIds |-> [exists |-> TRUE, is_active |-> act[p]]]
    /\ answered \in AnsweredChoices
    /\ results = <<>>
    /\ next_id = 1
    /\ dispatchQ = EmptyBag
    /\ execQ = EmptyBag
    /\ disp = [w \in DispWorkers |-> IdleDisp]
    /\ exec = [w \in ExecWorkers |-> IdleExec]
    /\ gen_log = <<>>
    /\ row_order \in RowOrders
    /\ grouped = Grouped(processors)
    /\ ops = [k \in OpKinds |-> 0]
    /\ rq = NoRequeue
    /\ questions = [q \in QuestionIds |-> AnsweredText]
    /\ questionnaire_responses = ResponseIds
    /\ reply = NoReply

(* ------------------------------------------------------------------ *)
(* External events                                                     *)
(* ------------------------------------------------------------------ *)

\* mutant: the response lookup finds a row for every id
ResponseFound_Always(rid) == TRUE

\* the response lookup of the tasks: scalar_one_or_none() is not None
ResponseFound(rid) == rid \in questionnaire_responses

\* complete_questionnaire_response: process_questionnaire_response.delay(id)
Complete(rid) ==
    /\ OpsTotal < MaxOps
    /\ ResponseFound(rid)
    /\ Count("trigger")
    /\ dispatchQ' = dispatchQ (+) SetToBag({rid})
    /\ reply' = NoReply
    /\ UNCHANGED <<processors, answered, results, next_id, execQ, disp, exec, gen_log,
                   row_order, questions, questionnaire_responses, grouped, rq>>

\* what the SELECT of queue_questionnaire_responses can return: the responses
\* of the questionnaire, with or without the ones removed right after
Listings == {ResponseIds \cup gone : gone \in SUBSET StaleResponseIds}

\* mutant: the loop stops after the first response
QueuedDispatches_FirstOnly(responses) == SetToBag({Min(responses)})

\* for response in responses: process_questionnaire_response.delay(response.id)
QueuedDispatches(responses) == SetToBag(responses)

\* queue_questionnaire_responses: one delay per response of the questionnaire,
\* and the message "Queued processing for {len(responses)} responses"
QueueAll(responses) ==
    /\ OpsTotal < MaxOps
    /\ Count("trigger")
    /\ dispatchQ' = dispatchQ (+) QueuedDispatches(responses)
    /\ reply' = [ret |-> "Queued processing", count |-> Cardinality(responses)]
    /\ UNCHANGED <<processors, answered, results, next_id, execQ, disp, exec, gen_log,
                   row_order, questions, questionnaire_responses, grouped, rq>>

\* delete_processor: the mapping rows of the processor stay
DeleteProcessor(p) ==
    /\ OpsTotal < MaxOps
    /\ processors[p].exists
    /\ Count("delete_processor")
    /\ processors' = [processors EXCEPT ![p].exists = FALSE]
    /\ reply' = NoReply
    /\ UNCHANGED <<answered, results, next_id, dispatchQ, execQ, disp, exec, gen_log,
                   row_order, questions, questionnaire_responses, rq>>
    /\ grouped' = Grouped([processors EXCEPT ![p].exists = FALSE])

\* update_question: the text of a question is edited after the answers were given
EditQuestion(q) ==
    /\ OpsTotal < MaxOps
    /\ questions[q] # EditedText
    /\ Count("edit_question")
    /\ questions' = [questions EXCEPT ![q] = EditedText]
    /\ reply' = NoReply
    /\ UNCHANGED <<processors, answered, results, next_id, dispatchQ, execQ, disp, exec, gen_log,
                   row_order, grouped, rq, questionnaire_responses>>

\* the row of the response is removed; its processing_results rows stay
DeleteResponse(rid) ==
    /\ OpsTotal < MaxOps
    /\ ResponseFound(rid)
    /\ Count("delete_response")
    /\ questionnaire_responses' = questionnaire_responses \ {rid}
    /\ reply' = NoReply
    /\ UNCHANGED <<processors, answered, results, next_id, dispatchQ, execQ, disp, exec, gen_log,
                   row_order, grouped, rq, questions>>

\* at-least-once delivery: the broker delivers a queued execute message twice
Redeliver(r) ==
    /\ OpsTotal < MaxOps
    /\ BagIn(r, execQ)
    /\ Count("redeliver")
    /\ execQ' = execQ (+) SetToBag({r})
    /\ reply' = NoReply
    /\ UNCHANGED <<processors, answered, results, next_id, dispatchQ, disp, exec, gen_log,
                   row_order, questions, questionnaire_responses, grouped, rq>>

(* ------------------------------------------------------------------ *)
(* requeue_processing                                                  *)
(* ------------------------------------------------------------------ *)

\* mutant: without a processor_id only the rows of the first processor are selected
RequeueTargets_FirstOnly(rid, pid) == IF pid # 0 THEN RowsFor(rid, pid) ELSE RowsFor(rid, 1)

\* the rows requeue selects for deletion; processor_id 0 stands for None
RequeueTargets(rid, pid) == IF pid # 0 THEN RowsFor(rid, pid) ELSE RowsOfResponse(rid)

\* scalar_one_or_none raises MultipleResultsFound on more than one row
MultipleResultsFound(rows) == Cardinality(rows) > 1

\* mutant: the delete is not limited to the selected rows
DeleteRows_Everything(targets) == [i \in {} |-> results[i]]

\* the table after session.delete of the targets and the commit
DeleteRows(targets) == [i \in DOMAIN results \ targets |-> results[i]]

\* no task is queued or running
Quiet ==
    /\ dispatchQ = EmptyBag /\ execQ = EmptyBag
    /\ \A w \in DispWorkers : disp[w].pc = "idle"
    /\ \A w \in ExecWorkers : exec[w].pc = "idle"

Requeue(rid, pid) ==
    /\ OpsTotal < MaxOps
    /\ Count("requeue")
    /\ IF pid # 0 /\ MultipleResultsFound(RequeueTargets(rid, pid))
       THEN /\ UNCHANGED <<results, dispatchQ>>
            /\ rq' = NoRequeue
       ELSE /\ results' = DeleteRows(RequeueTargets(rid, pid))
            /\ dispatchQ' = dispatchQ (+) SetToBag({rid})
            /\ rq' = IF Quiet /\ RowsOfResponse(rid) # {}
                     THEN [pid |-> pid, clean |-> TRUE,
                           all_completed |-> \A i \in RowsOfResponse(rid) : results[i].status = "completed",
                           mark |-> next_id, after |-> results', n |-> OpsTotal + 1]
                     ELSE NoRequeue
    /\ reply' = NoReply
    /\ UNCHANGED <<processors, answered, next_id, execQ, disp, exec, gen_log,
                   row_order, questions, questionnaire_responses, grouped>>

(* ------------------------------------------------------------------ *)
(* process_questionnaire_response                                      *)
(* ------------------------------------------------------------------ *)

FirstIdle(ws, w) == ws[w].pc = "idle" /\ \A v \in DOMAIN ws : v < w => ws[v].pc # "idle"

\* after one group: the next one, or the end of the task
NextGroup(d) ==
    IF Len(d.groups) > 1
    THEN [d EXCEPT !.pc = "select", !.groups = Tail(@), !.existing = 0, !.result_id = 0]
    ELSE IdleDisp

\* the task starts: response lookup, question query, grouping
DispatchStart(w, rid) ==
    /\ FirstIdle(disp, w)
    /\ BagIn(rid, dispatchQ)
    /\ dispatchQ' = dispatchQ (-) SetToBag({rid})
    /\ disp' = [disp EXCEPT ![w] =
                  IF ~ResponseFound(rid) \/ grouped.rows = <<>>
                  THEN IdleDisp
                  ELSE [IdleDisp EXCEPT !.pc = "select", !.response_id = rid,
                                        !.groups = grouped.groups]]
    /\ reply' = IF ~ResponseFound(rid)
                THEN [ret |-> "Questionnaire response not found", count |-> 0]
                ELSE IF grouped.rows = <<>>
                THEN [ret |-> "No processors assigned", count |-> 0]
                ELSE NoReply
    /\ UNCHANGED <<processors, answered, results, next_id, execQ, exec, gen_log,
                   row_order, questions, questionnaire_responses, grouped, ops, rq>>

\* the existence check of one group; skipped records the rows passed over
DispatchSelect(w) ==
    LET d == disp[w]
        g == Head(d.groups)
        found == RowsFor(d.response_id, g.processor_id)
        existing == IF found = {} THEN 0 ELSE CHOOSE i \in found : TRUE
    IN  /\ d.pc = "select"
        /\ disp' = [disp EXCEPT ![w] =
                      IF MultipleResultsFound(found) THEN IdleDisp
                      ELSE IF SkipExisting(existing)
                      THEN IF Len(d.groups) > 1
                           THEN [NextGroup(d) EXCEPT !.skipped = d.skipped \cup {existing}]
                           ELSE IdleDisp
                      ELSE [d EXCEPT !.pc = "write", !.existing = existing]]
        /\ reply' = NoReply
        /\ UNCHANGED <<processors, answered, results, next_id, dispatchQ, execQ, exec, gen_log,
                       row_order, questions, questionnaire_responses, grouped, ops, rq>>

\* create or update the row, commit
DispatchWrite(w) ==
    LET d == disp[w]
        g == Head(d.groups)
    IN  /\ d.pc = "write"
        /\ IF d.existing = 0
           THEN /\ results' = results @@ (next_id :> NewResult(d.response_id, g.processor_id, g.questions))
                /\ gen_log' = gen_log @@ (next_id :> "none")
                /\ next_id' = next_id + 1
                /\ disp' = [disp EXCEPT ![w].pc = "enqueue", ![w].result_id = next_id]
           ELSE IF d.existing \in DOMAIN results
           THEN /\ results' = [results EXCEPT ![d.existing] = UpdatedResult(@, g.questions)]
                /\ disp' = [disp EXCEPT ![w].pc = "enqueue", ![w].result_id = d.existing]
                /\ UNCHANGED <<next_id, gen_log>>
           ELSE \* the row is gone: the UPDATE matches no row and the task ends with the error
                /\ disp' = [disp EXCEPT ![w] = IdleDisp]
                /\ UNCHANGED <<results, next_id, gen_log>>
        /\ reply' = NoReply
        /\ UNCHANGED <<processors, answered, dispatchQ, execQ, exec,
                       row_order, questions, questionnaire_responses, grouped, ops, rq>>

\* mutant: the job is sent twice
DispatchEnqueue_Twice(w) ==
    LET d == disp[w]
    IN  /\ d.pc = "enqueue"
        /\ execQ' = execQ (+) SetToBag({d.result_id}) (+) SetToBag({d.result_id})
        /\ disp' = [disp EXCEPT ![w] = NextGroup(d)]
        /\ reply' = NoReply
        /\ UNCHANGED <<processors, answered, results, next_id, dispatchQ, exec, gen_log,
                       row_order, questions, questionnaire_responses, grouped, ops, rq>>

\* execute_processor.delay(result_id)
DispatchEnqueue(w) ==
    LET d == disp[w]
    IN  /\ d.pc = "enqueue"
        /\ execQ' = execQ (+) SetToBag({d.result_id})
        /\ disp' = [disp EXCEPT ![w] = NextGroup(d)]
        /\ reply' = NoReply
        /\ UNCHANGED <<processors, answered, results, next_id, dispatchQ, exec, gen_log,
                       row_order, questions, questionnaire_responses, grouped, ops, rq>>

(* ------------------------------------------------------------------ *)
(* execute_processor                                                   *)
(* ------------------------------------------------------------------ *)

\* what generate_with_deepseek returns: output, an error with text, or an
\* error whose text (stderr) is empty
GenOutcomes == {"ok", "error", "error_empty"}

\* execute_post_processing: the parsed output of the script, {} for an
\* interpreter that is neither python nor javascript, or the exception
execute_post_processing(interp, behaviour) ==
    IF interp \in {"python", "javascript"}
    THEN IF behaviour = "json" THEN "processed"
         ELSE IF behaviour = "exit_nonzero" THEN "Post-processing failed"
         ELSE "Post-processing output is not valid JSON"
    ELSE "empty"

\* mutant: the loads of the processor and of the response are not checked
LoadFailure_Unchecked(row) == "none"

\* the failure found before the template is rendered, or "none"
LoadFailure(row) ==
    IF ~processors[row.processor_id].exists THEN "Processor not found"
    ELSE IF ~ResponseFound(row.questionnaire_response_id) THEN "Questionnaire response not found"
    ELSE IF SeqToSet(row.question_ids) \cap answered = {} THEN "No question responses found"
    ELSE "none"

Failed(row, msg) == [row EXCEPT !.status = "failed", !.error_message = msg]

\* mutant: the except branch stores the message and forgets the status
FinishRow_NoStatus(row, outcome) ==
    IF outcome = "error"
    THEN [row EXCEPT !.prompt = "prompt", !.error_message = "DeepSeek R1 error"]
    ELSE [row EXCEPT !.prompt = "prompt", !.status = "completed",
                     !.raw_output = IF outcome = "ok" THEN "output" ELSE NULL]

\* the row as the task leaves it after the generation call returned: the
\* post-processing branch stores {"processed": output} and runs no script
FinishRow(row, outcome) ==
    LET withPrompt == [row EXCEPT !.prompt = "prompt"]
        code == post_processing_code[row.processor_id]
    IN  IF outcome = "error"
        THEN Failed(withPrompt, "DeepSeek R1 error")
        ELSE [withPrompt EXCEPT
                !.raw_output = IF outcome = "ok" THEN "output" ELSE NULL,
                !.processed_output = IF code THEN "processed" ELSE @,
                !.status = "completed"]

\* mutant: a failure before the generation call is not written to the row
EarlyFailure_Silent(row, render_ok) == row

\* the row when the task ends before the generation call
EarlyFailure(row, render_ok) ==
    IF LoadFailure(row) # "none" THEN Failed(row, LoadFailure(row))
    ELSE IF ~render_ok THEN Failed(row, "template error")
    ELSE row

\* mutant: the answers are listed in the order of the row's question_ids
questions_data_RowOrder(row) ==
    LET qs == SelectSeq(row.question_ids, LAMBDA q : q \in answered)
    IN  [i \in 1..Len(qs) |-> [id |-> qs[i], text |-> questions[qs[i]], index |-> i]]

\* the QuestionResponse rows with question_id IN question_ids, ordered by
\* question_id, enumerated from 1; text is qr.question.text
questions_data(row) ==
    LET qs == AscSeq(SeqToSet(row.question_ids) \cap answered)
    IN  [i \in 1..Len(qs) |-> [id |-> qs[i], text |-> questions[qs[i]], index |-> i]]

template_context(row) ==
    [questions |-> questions_data(row),
     questionnaire_id |-> questionnaire_id[row.questionnaire_response_id],
     user_id |-> user_id[row.questionnaire_response_id]]

\* the Python expression "stored or default"
Or(stored, default) == IF stored.is_set /\ stored.value # 0 THEN stored.value ELSE default

\* the arguments of generate_with_deepseek
generation_call(p) ==
    [temperature |-> Or(llm_temperature[p], DefaultTemperature),
     max_tokens |-> Or(llm_max_tokens[p], DefaultMaxTokens)]

\* the task starts: loads, render; ends here on a failure
ExecStart(w, r, render_ok) ==
    /\ FirstIdle(exec, w)
    /\ BagIn(r, execQ)
    /\ execQ' = execQ (-) SetToBag({r})
    /\ IF r \notin DOMAIN results
       THEN UNCHANGED <<results, exec, gen_log>>
       ELSE IF LoadFailure(results[r]) # "none" \/ ~render_ok
       THEN /\ results' = [results EXCEPT ![r] = EarlyFailure(@, render_ok)]
            /\ gen_log' = [gen_log EXCEPT ![r] = "none"]
            /\ UNCHANGED exec
       ELSE /\ exec' = [exec EXCEPT ![w] = [pc |-> "generating", result_id |-> r,
                                            context |-> template_context(results[r]),
                                            call |-> generation_call(results[r].processor_id)]]
            /\ UNCHANGED <<results, gen_log>>
    /\ reply' = NoReply
    /\ UNCHANGED <<processors, answered, next_id, dispatchQ, disp,
                   row_order, questions, questionnaire_responses, grouped, ops, rq>>

\* subprocess.run has no timeout: when the model process never exits the call
\* never returns and the task stays where it is
GenBlocks(w) ==
    /\ exec[w].pc = "generating"
    /\ exec' = [exec EXCEPT ![w].pc = "blocked"]
    /\ reply' = NoReply
    /\ UNCHANGED <<processors, answered, results, next_id, dispatchQ, execQ, disp, gen_log,
                   row_order, questions, questionnaire_responses, grouped, ops, rq>>

\* mutant: the commit of a row that was deleted inserts it again
CommitRow_Insert(r, outcome) ==
    IF r \in DOMAIN results
    THEN [results EXCEPT ![r] = FinishRow(@, outcome)]
    ELSE results @@ (r :> FinishRow(NewResult(Min(ResponseIds), Min(ProcIds), <<>>), outcome))

\* session.commit() of the loaded row: an UPDATE by primary key, which changes
\* nothing when the row was deleted meanwhile
CommitRow(r, outcome) ==
    IF r \in DOMAIN results
    THEN [results EXCEPT ![r] = FinishRow(@, outcome)]
    ELSE results

\* the generation call returns; outputs, status, commit
ExecFinish(w, outcome) ==
    LET r == exec[w].result_id
    IN  /\ exec[w].pc = "generating"
        /\ exec' = [exec EXCEPT ![w] = IdleExec]
        /\ gen_log' = [gen_log EXCEPT ![r] = outcome]
        /\ results' = CommitRow(r, outcome)
        /\ reply' = NoReply
        /\ UNCHANGED <<processors, answered, next_id, dispatchQ, execQ, disp,
                       row_order, questions, questionnaire_responses, grouped, ops, rq>>

(* ------------------------------------------------------------------ *)
(* Specification                                                       *)
(* ------------------------------------------------------------------ *)

Next ==
    \/ \E rid \in ResponseIds : Complete(rid)
    \/ QueueAll(ResponseIds)
    \/ \E p \in ProcIds : DeleteProcessor(p)
    \/ \E r \in DOMAIN results : Redeliver(r)
    \/ \E rid \in ResponseIds, pid \in {0} \cup ProcIds : Requeue(rid, pid)
    \/ \E w \in DispWorkers, rid \in ResponseIds : DispatchStart(w, rid)
    \/ \E w \in DispWorkers : DispatchSelect(w)
    \/ \E w \in DispWorkers : DispatchWrite(w)
    \/ \E w \in DispWorkers : DispatchEnqueue(w)
    \/ \E w \in ExecWorkers, r \in 1..(next_id - 1), render_ok \in BOOLEAN : ExecStart(w, r, render_ok)
    \/ \E w \in ExecWorkers : GenBlocks(w)
    \/ \E w \in ExecWorkers, outcome \in GenOutcomes : ExecFinish(w, outcome)

Spec == Init /\ [][Next]_vars

\* a step of a task on a worker: the broker delivers every queued message to a
\* free worker, a running task goes on, a generation call that is not blocked
\* returns
TaskStep ==
    \/ \E w \in DispWorkers, rid \in ResponseIds : DispatchStart(w, rid)
    \/ \E w \in DispWorkers : DispatchSelect(w) \/ DispatchWrite(w) \/ DispatchEnqueue(w)
    \/ \E w \in ExecWorkers, r \in 1..(next_id - 1), render_ok \in BOOLEAN : ExecStart(w, r, render_ok)
    \/ \E w \in ExecWorkers, outcome \in GenOutcomes : ExecFinish(w, outcome)

\* the pipeline with fair workers and no requeue: dispatch triggers, the tasks,
\* and generation calls that may block, for one database row order and a
\* response that answers every question
LiveInit == Init /\ row_order = "asc" /\ answered = QuestionIds

LiveNext ==
    \/ \E rid \in ResponseIds : Complete(rid)
    \/ QueueAll(ResponseIds)
    \/ \E w \in DispWorkers, rid \in ResponseIds : DispatchStart(w, rid)
    \/ \E w \in DispWorkers : DispatchSelect(w)
    \/ \E w \in DispWorkers : DispatchWrite(w)
    \/ \E w \in DispWorkers : DispatchEnqueue(w)
    \/ \E w \in ExecWorkers, r \in 1..(next_id - 1), render_ok \in BOOLEAN : ExecStart(w, r, render_ok)
    \/ \E w \in ExecWorkers : GenBlocks(w)
    \/ \E w \in ExecWorkers, outcome \in GenOutcomes : ExecFinish(w, outcome)

LiveSpec == LiveInit /\ [][LiveNext]_vars /\ WF_vars(TaskStep)

\* the pipeline fed by the completion trigger and by
\* queue_questionnaire_responses when responses of its listing are removed
\* before their dispatch runs; no requeue, admin edit or redelivery
StaleNext ==
    \/ \E rid \in ResponseIds : Complete(rid)
    \/ \E responses \in Listings : QueueAll(responses)
    \/ \E w \in DispWorkers, rid \in DispatchIds : DispatchStart(w, rid)
    \/ \E w \in DispWorkers : DispatchSelect(w)
    \/ \E w \in DispWorkers : DispatchWrite(w)
    \/ \E w \in DispWorkers : DispatchEnqueue(w)
    \/ \E w \in ExecWorkers, r \in 1..(next_id - 1), render_ok \in BOOLEAN : ExecStart(w, r, render_ok)
    \/ \E w \in ExecWorkers, outcome \in GenOutcomes : ExecFinish(w, outcome)

StaleSpec == Init /\ [][StaleNext]_vars

\* the pipeline fed by the completion trigger while an administrator edits
\* questions, deletes processors and the response row is removed; no requeue,
\* no redelivery, generation calls return
AdminNext ==
    \/ \E rid \in ResponseIds : Complete(rid)
    \/ \E q \in QuestionIds : EditQuestion(q)
    \/ \E p \in ProcIds : DeleteProcessor(p)
    \/ \E rid \in ResponseIds : DeleteResponse(rid)
    \/ \E w \in DispWorkers, rid \in ResponseIds : DispatchStart(w, rid)
    \/ \E w \in DispWorkers : DispatchSelect(w)
    \/ \E w \in DispWorkers : DispatchWrite(w)
    \/ \E w \in DispWorkers : DispatchEnqueue(w)
    \/ \E w \in ExecWorkers, r \in 1..(next_id - 1), render_ok \in BOOLEAN : ExecStart(w, r, render_ok)
    \/ \E w \in ExecWorkers, outcome \in GenOutcomes : ExecFinish(w, outcome)

AdminSpec == Init /\ [][AdminNext]_vars

\* the rows two concurrent dispatches of response rid insert when both pass
\* the existence check of a group before either commits: two rows for each
\* group, here with both jobs of each row run to the end
DuplicateRows(rid) ==
    LET groups == processor_questions([p \in ProcIds |-> [exists |-> TRUE, is_active |-> TRUE]], "asc")
        g(i) == groups[(i + 1) \div 2]
    IN  [i \in 1..(2 * Len(groups)) |->
            FinishRow(NewResult(rid, g(i).processor_id, g(i).questions), "ok")]

\* the pipeline at rest on a table that holds such rows
DupInit ==
    /\ processors = [p \in ProcIds |-> [exists |-> TRUE, is_active |-> TRUE]]
    /\ answered = QuestionIds
    /\ \E rid \in ResponseIds : results = DuplicateRows(rid)
    /\ next_id = Len(results) + 1
    /\ dispatchQ = EmptyBag
    /\ execQ = EmptyBag
    /\ disp = [w \in DispWorkers |-> IdleDisp]
    /\ exec = [w \in ExecWorkers |-> IdleExec]
    /\ gen_log = [i \in DOMAIN results |-> "ok"]
    /\ row_order = "asc"
    /\ grouped = Grouped(processors)
    /\ ops = [k \in OpKinds |-> 0]
    /\ rq = NoRequeue
    /\ questions = [q \in QuestionIds |-> AnsweredText]
    /\ questionnaire_responses = ResponseIds
    /\ reply = NoReply

DupSpec == DupInit /\ [][Next]_vars

(* ------------------------------------------------------------------ *)
(* Properties                                                          *)
(* ------------------------------------------------------------------ *)

\* processors a dispatch is meant to run: active, with a question mapping
BoundQuestions(p) == {q \in QuestionIds : <<q, p>> \in Mappings}
ActiveBound == {p \in ProcIds : ActiveProcessor(p) /\ BoundQuestions(p) # {}}

\* no dispatch task is queued or running
DispatchDone == dispatchQ = EmptyBag /\ \A w \in DispWorkers : disp[w].pc = "idle"

\* no task that writes row r is queued or running
QuiescentFor(r) ==
    /\ ~BagIn(r, execQ)
    /\ \A w \in ExecWorkers : exec[w].result_id # r
    /\ \A w \in DispWorkers :
          disp[w].pc \in {"write", "enqueue"} => disp[w].existing # r /\ disp[w].result_id # r

\* this step ends an execute_processor run for result r
ExecReturns(r) ==
    \/ \E w \in ExecWorkers :
          exec[w].pc = "generating" /\ exec[w].result_id = r /\ exec'[w].pc = "idle"
    \/ CopiesIn(r, execQ') < CopiesIn(r, execQ) /\ exec' = exec

\* C1: whenever an execute run that found its row ends, the row's status is
\* completed or failed, whichever step failed
C1_TerminalAfterExecute ==
    [][\A r \in DOMAIN results :
          ExecReturns(r) => r \in DOMAIN results' /\ Terminal(results'[r].status)]_vars

\* a generation failure and a failure before the render, both ended failed
C1_Witness ==
    \E i, j \in DOMAIN results :
        /\ results[i].status = "failed" /\ results[i].error_message = "DeepSeek R1 error"
        /\ results[j].status = "failed" /\ results[j].error_message = "No question responses found"

\* C2: after two dispatches of a response with no requeue, the response has no
\* more rows than active processors bound to its questions
C2_IdempotentDispatch ==
    (/\ ops["trigger"] = 2 /\ OpsTotal = 2
     /\ DispatchDone
     /\ \A p \in ProcIds : Cardinality(RowsFor(1, p)) <= 1)
    => Cardinality(RowsOfResponse(1)) <= Cardinality(ActiveBound)

\* C3: a dispatch that finds a completed row for a (response, processor) pair
\* changes no row, enqueues no job and goes on to the next group
C3_CompletedSkipped ==
    [][\A w \in DispWorkers :
          (/\ disp[w].pc = "select" /\ disp'[w] # disp[w]
           /\ \E i \in RowsFor(disp[w].response_id, Head(disp[w].groups).processor_id) :
                 results[i].status = "completed")
          => /\ results' = results /\ execQ' = execQ
             /\ disp'[w].pc \in {"idle", "select"}
             /\ disp'[w].pc = "select" => Len(disp'[w].groups) < Len(disp[w].groups)]_vars

\* a running dispatch has passed over a completed row
C3_Witness ==
    \E w \in DispWorkers : \E i \in disp[w].skipped :
        i \in DOMAIN results /\ results[i].status = "completed"

\* C4: with processor 1 on questions {1,2} and processor 2 on {2,3}, one
\* dispatch of a response answering all three leaves one row per processor
\* whose question_ids are the processor's questions, ascending, no duplicates
C4_Grouping ==
    (/\ \A p \in ProcIds : ActiveProcessor(p)
     /\ answered = QuestionIds
     /\ ops["trigger"] = 1 /\ OpsTotal = 1
     /\ DispatchDone)
    => \A p \in ProcIds :
          \E i \in DOMAIN results :
              /\ RowsFor(1, p) = {i}
              /\ results[i].question_ids = AscSeq(BoundQuestions(p))

\* this step is a requeue_processing run without a processor_id, made while
\* no task was queued or running
CleanRequeueStep(all) ==
    /\ ops'["requeue"] = ops["requeue"] + 1
    /\ rq'.clean /\ (rq'.pid = 0) = all

\* C5: requeue without a processor_id deletes every row of the response and
\* queues a dispatch; every row of the response from then on has a new id,
\* every created row starts as processing, and once the dispatch has run each
\* active processor has a row again, also when all deleted rows were completed
C5_RequeueAll ==
    /\ [][CleanRequeueStep(TRUE) =>
             /\ RowsOfResponse(1)' = {}
             /\ dispatchQ' = dispatchQ (+) SetToBag({1})]_vars
    /\ [][\A i \in DOMAIN results' \ DOMAIN results :
             i = next_id /\ next_id' > i /\ results'[i].status = "processing"]_vars
    /\ [](rq.clean /\ rq.pid = 0 =>
             /\ \A i \in RowsOfResponse(1) : i >= rq.mark
             /\ DispatchDone => \A p \in ActiveBound : RowsFor(1, p) # {})

\* all rows were completed, requeue deleted them, the dispatch has run and
\* both processors have a row
C5_Witness ==
    /\ rq.clean /\ rq.pid = 0 /\ rq.all_completed
    /\ DispatchDone
    /\ \A p \in ProcIds : ActiveProcessor(p) /\ RowsFor(1, p) # {}

\* no processor has two rows in tbl
OneRowEach(tbl) ==
    \A i, j \in DOMAIN tbl : tbl[i].processor_id = tbl[j].processor_id => i = j

\* C6: requeue with processor_id P deletes the row of P and no other row; the
\* completed rows of the other processors stay as they were, get no job, and
\* the dispatch creates rows and jobs for P alone (P's row is created again
\* when the other processors have one row each, the case the sentence is about:
\* on a second row of another processor the lookup of the dispatch raises)
C6_RequeueScoped ==
    /\ [][CleanRequeueStep(FALSE) =>
             /\ \A i \in DOMAIN results :
                   results[i].processor_id # rq'.pid => i \in DOMAIN results' /\ results'[i] = results[i]
             /\ \A i \in DOMAIN results' : results'[i].processor_id # rq'.pid
             /\ dispatchQ' = dispatchQ (+) SetToBag({1})]_vars
    /\ [](rq.clean /\ rq.pid \in ProcIds =>
             /\ \A i \in DOMAIN rq.after :
                   rq.after[i].status = "completed" =>
                       /\ i \in DOMAIN results /\ results[i] = rq.after[i]
                       /\ ~BagIn(i, execQ)
                       /\ \A w \in ExecWorkers : exec[w].result_id # i
             /\ (\A i \in DOMAIN rq.after : rq.after[i].status = "completed") =>
                   /\ \A i \in DOMAIN results \ DOMAIN rq.after : results[i].processor_id = rq.pid
                   /\ \A i \in DOMAIN results : BagIn(i, execQ) => results[i].processor_id = rq.pid
             /\ DispatchDone /\ rq.pid \in ActiveBound /\ OneRowEach(rq.after) => RowsFor(1, rq.pid) # {})

\* processor 1 was requeued while processor 2's row was completed; the
\* dispatch has run and processor 1 has a new row
C6_Witness ==
    /\ rq.clean /\ rq.pid = 1
    /\ \E i \in DOMAIN rq.after : rq.after[i].processor_id = 2 /\ rq.after[i].status = "completed"
    /\ DispatchDone
    /\ \E i \in RowsFor(1, 1) : i >= rq.mark

\* the generation call of the last execute run for r ended with an error
GenErrored(r) == gen_log[r] \in {"error", "error_empty"}

\* C7: of two processors of one response, the one whose generation call
\* errors ends failed and the one whose call succeeds ends completed, and an
\* execute run writes no row but its own
C7_PartialFailure ==
    /\ [][\A r \in DOMAIN results : ExecReturns(r) =>
             \A i \in DOMAIN results \ {r} : i \in DOMAIN results' /\ results'[i] = results[i]]_vars
    /\ [](\A x, y \in DOMAIN results :
            (/\ results[x].questionnaire_response_id = results[y].questionnaire_response_id
             /\ results[x].processor_id # results[y].processor_id
             /\ GenErrored(x) /\ gen_log[y] = "ok"
             /\ QuiescentFor(x) /\ QuiescentFor(y))
            => results[x].status = "failed" /\ results[y].status = "completed")

\* C8: a result whose generation succeeded and whose post-processing script
\* fails ends failed, with raw_output kept, no processed_output and an error
\* message
C8_PostProcessingFailure ==
    \A r \in DOMAIN results :
        LET p == results[r].processor_id
        IN  (/\ QuiescentFor(r) /\ gen_log[r] = "ok"
             /\ post_processing_code[p]
             /\ execute_post_processing(interpreter[p], script_behaviour[p]) \notin {"processed", "empty"})
            => /\ results[r].status = "failed"
               /\ results[r].raw_output # NULL
               /\ results[r].processed_output = NULL
               /\ results[r].error_message # NULL

\* C9: an execute run delivered for a result that is already completed or
\* failed changes no row and starts no generation call
C9_RedeliveryNoOp ==
    [][\A r \in DOMAIN results :
          (Terminal(results[r].status) /\ CopiesIn(r, execQ') < CopiesIn(r, execQ))
          => results' = results /\ exec' = exec]_vars

\* C10: at most one row per (response, processor) pair
C10_OneRowPerPair ==
    \A rid \in ResponseIds, p \in ProcIds : Cardinality(RowsFor(rid, p)) <= 1

\* C11: without a requeue (and without a redelivered job) a completed row
\* stays completed, whatever dispatch and execute tasks run
C11_CompletedIsFinal ==
    [][(ops'["requeue"] = 0 /\ ops'["redeliver"] = 0) =>
          \A r \in DOMAIN results :
              results[r].status = "completed" =>
                  r \in DOMAIN results' /\ results'[r].status = "completed"]_vars

\* this step is dispatch sending an execute job for r (not a redelivery)
DispatchEnqueues(r) == ops' = ops /\ CopiesIn(r, execQ') > CopiesIn(r, execQ)

\* C12 as stated: when dispatch sends the job for r, the row r exists
C12_RowExistsAtEnqueue ==
    [][\A r \in 1..(next_id - 1) : DispatchEnqueues(r) => r \in DOMAIN results']_vars

\* C12, amended: dispatch commits the row (processing, question_ids,
\* processor_version) in a step before the one that sends the job, and when
\* the job is sent the row exists unless a requeue ran in between
C12_CommitBeforeEnqueue ==
    /\ [][\A w \in DispWorkers :
             (disp[w].pc = "write" /\ disp'[w].pc = "enqueue") =>
                 LET r == disp'[w].result_id
                 IN  /\ r \in DOMAIN results'
                     /\ results'[r].status = "processing"
                     /\ results'[r].question_ids = Head(disp[w].groups).questions
                     /\ results'[r].processor_version = "deepseek-r1@v0.1"
                     /\ execQ' = execQ]_vars
    /\ [][\A r \in 1..(next_id - 1) :
             DispatchEnqueues(r) =>
                 /\ \E w \in DispWorkers : disp[w].pc = "enqueue" /\ disp[w].result_id = r
                 /\ r \in DOMAIN results' \/ ops["requeue"] > 0]_vars

\* the job of a committed processing row is in the queue
C12_Witness ==
    \E r \in DOMAIN results :
        /\ BagIn(r, execQ) /\ results[r].status = "processing"
        /\ \A w \in DispWorkers : disp[w].pc = "idle"

\* the table differs from the table before at row r at most
OnlyRowChanged(r) ==
    /\ DOMAIN results' = DOMAIN results \cup {r}
    /\ \A i \in DOMAIN results \ {r} : results'[i] = results[i]

\* C13: a dispatch run sends exactly one job, carrying the result id, for each
\* row it creates or updates, right after the commit of that row, and no other
\* job; it writes no row twice
C13_OneJobPerRow ==
    /\ [][\A w \in DispWorkers :
             disp'[w] # disp[w] =>
                 /\ disp[w].pc = "write" /\ disp'[w].pc = "enqueue" =>
                       OnlyRowChanged(disp'[w].result_id) /\ execQ' = execQ
                 /\ disp[w].pc = "enqueue" =>
                       /\ execQ' = execQ (+) SetToBag({disp[w].result_id})
                       /\ results' = results
                 /\ ~(disp[w].pc = "write" /\ disp'[w].pc = "enqueue") /\ disp[w].pc # "enqueue" =>
                       results' = results /\ execQ' = execQ]_vars
    /\ [][\A r \in 1..(next_id - 1) :
             DispatchEnqueues(r) =>
                 \E w \in DispWorkers :
                     disp[w].pc = "enqueue" /\ disp[w].result_id = r /\ disp'[w] # disp[w]]_vars
    /\ [](\A w \in DispWorkers : \A i, j \in 1..Len(disp[w].groups) :
             disp[w].groups[i].processor_id = disp[w].groups[j].processor_id => i = j)

\* a dispatch run has sent the job of its first row and is about to send the
\* job of its second
C13_Witness ==
    \E w \in DispWorkers :
        /\ disp[w].pc = "enqueue" /\ Len(disp[w].groups) = 1
        /\ \E r \in DOMAIN results : r # disp[w].result_id /\ CopiesIn(r, execQ) = 1

\* C14: a row has an error_message only while its status is failed (stated
\* for the behaviours without a redelivered job: dispatch and execute alone)
C14_ErrorOnlyWhenFailed ==
    ops["redeliver"] = 0 =>
        \A r \in DOMAIN results :
            results[r].error_message # NULL => results[r].status = "failed"

\* C15: a result whose last generation call failed, with or without error
\* text, is failed, has an error_message and no raw_output
C15_BackendErrorFails ==
    \A r \in DOMAIN results :
        (GenErrored(r) /\ QuiescentFor(r))
        => /\ results[r].status = "failed"
           /\ results[r].error_message # NULL
           /\ results[r].raw_output = NULL

\* result ids a behaviour can allocate
ResultIds == 1..(Cardinality(ProcIds) * MaxOps)

\* a step of an execute_processor run
ExecStep ==
    \/ \E w \in ExecWorkers, r \in 1..(next_id - 1), render_ok \in BOOLEAN : ExecStart(w, r, render_ok)
    \/ \E w \in ExecWorkers : GenBlocks(w)
    \/ \E w \in ExecWorkers, outcome \in GenOutcomes : ExecFinish(w, outcome)

\* C16: a generation call whose process never exits is ended by a timeout, so
\* the execute run finishes: from every state with a blocked call some step of
\* an execute run takes that worker out of the call
C16_HungCallTimesOut ==
    \A w \in ExecWorkers :
        exec[w].pc = "blocked" => ENABLED (ExecStep /\ exec'[w].pc # "blocked")

\* the job of r cannot have returned: its generation call is blocked, or every
\* worker is held by a blocked call
NoReturn(r) ==
    \/ \E w \in ExecWorkers : exec[w].pc = "blocked" /\ exec[w].result_id = r
    \/ \A w \in ExecWorkers : exec[w].pc = "blocked"

\* C17: with fair workers every row that is processing becomes completed or
\* failed, unless a requeue deletes it or a generation call does not return
C17_EventuallyTerminal ==
    \A r \in ResultIds :
        (r \in DOMAIN results /\ results[r].status = "processing")
        ~> (r \notin DOMAIN results \/ Terminal(results[r].status) \/ NoReturn(r))

\* a row that a second dispatch put back to processing has ended completed
C17_Witness ==
    \E r \in DOMAIN results :
        /\ results[r].status = "completed" /\ results[r].error_message # NULL
        /\ ops["trigger"] = 2 /\ Quiet

\* the table of DupInit is one the pipeline reaches from the empty table
DuplicateRowsReached ==
    /\ \E rid \in ResponseIds : results = DuplicateRows(rid)
    /\ gen_log = [i \in DOMAIN results |-> "ok"]
    /\ next_id = Len(results) + 1
    /\ row_order = "asc" /\ answered = QuestionIds
    /\ \A p \in ProcIds : ActiveProcessor(p)
    /\ Quiet

\* C18: every requeue_processing run on an existing response sends one dispatch
\* for that response, whatever it deleted
C18_RequeueDispatches ==
    [][ops'["requeue"] > ops["requeue"]
          => \E rid \in ResponseIds : dispatchQ' = dispatchQ (+) SetToBag({rid})]_vars

\* C19: queue_questionnaire_responses sends one dispatch for each response it
\* listed and reports their number; a dispatch that ends with an error takes
\* only its own message and touches no other worker, and once all tasks have
\* run every existing response that was dispatched has a row for each group
C19_QueueAllIndependent ==
    /\ [][reply'.ret = "Queued processing"
             => \E responses \in Listings :
                   /\ dispatchQ' = dispatchQ (+) SetToBag(responses)
                   /\ \A rid \in responses : CopiesIn(rid, dispatchQ') = CopiesIn(rid, dispatchQ) + 1
                   /\ reply'.count = Cardinality(responses)
                   /\ reply'.count = BagCardinality(dispatchQ') - BagCardinality(dispatchQ)]_vars
    /\ [][reply'.ret = "Questionnaire response not found"
             => /\ \E rid \in StaleResponseIds : dispatchQ' = dispatchQ (-) SetToBag({rid})
                /\ \A rid \in ResponseIds : CopiesIn(rid, dispatchQ') = CopiesIn(rid, dispatchQ)
                /\ disp' = disp /\ exec' = exec /\ results' = results /\ execQ' = execQ]_vars
    /\ [](\A rid \in ResponseIds :
             (Quiet /\ ops["trigger"] > 0)
             => \A i \in 1..Len(grouped.groups) :
                   \E r \in RowsFor(rid, grouped.groups[i].processor_id) :
                       results[r].status \in {"completed", "failed"})

\* the dispatch of a deleted response has just failed while the dispatch of
\* the other response of the same listing is still queued
C19_Witness ==
    /\ reply.ret = "Questionnaire response not found"
    /\ OpsTotal = 1
    /\ \E rid \in ResponseIds : BagIn(rid, dispatchQ)
    /\ grouped.rows # <<>>

\* C20: a dispatch for a response id that has no row returns the not-found
\* error and changes nothing: no row, no job, no worker left in the task
C20_NotFoundNoEffect ==
    /\ [][\A rid \in StaleResponseIds :
             CopiesIn(rid, dispatchQ') < CopiesIn(rid, dispatchQ)
             => /\ reply'.ret = "Questionnaire response not found"
                /\ results' = results /\ next_id' = next_id
                /\ execQ' = execQ /\ disp' = disp]_vars
    /\ [](/\ \A r \in DOMAIN results : results[r].questionnaire_response_id \in ResponseIds
          /\ \A w \in DispWorkers : disp[w].response_id \in ResponseIds \cup {0})

\* a dispatch for a deleted response has just returned on a table with rows
C20_Witness ==
    /\ reply.ret = "Questionnaire response not found"
    /\ results # <<>>
    /\ \E w \in DispWorkers : disp[w].pc # "idle"

\* C21: every row dispatch wrote, and every job it sent, belongs to a processor
\* that is active (no processor was deleted in this behaviour)
C21_OnlyActiveProcessors ==
    ops["delete_processor"] = 0
    => /\ \A r \in DOMAIN results : ActiveProcessor(results[r].processor_id)
       /\ \A w \in DispWorkers :
             disp[w].pc \in {"select", "write", "enqueue"}
             => ActiveProcessor(Head(disp[w].groups).processor_id)

\* C22: the question_ids of a row hold only questions the response answered
C22_OnlyAnsweredQuestions ==
    \A r \in DOMAIN results : SeqToSet(results[r].question_ids) \subseteq answered

\* C26: while the generation call of a result is under way, or blocked, the
\* committed row carries the rendered prompt
C26_PromptBeforeGeneration ==
    \A w \in ExecWorkers :
        (exec[w].pc \in {"generating", "blocked"} /\ exec[w].result_id \in DOMAIN results)
        => results[exec[w].result_id].prompt # NULL

\* C29: a completed row has a prompt and a raw_output
C29_CompletedHasOutput ==
    \A r \in DOMAIN results :
        results[r].status = "completed"
        => results[r].prompt # NULL /\ results[r].raw_output # NULL

\* C25: a result whose generation succeeded and whose processor has no code,
\* or the interpreter none, is completed with processed_output still null
C25_PostProcessingGate ==
    \A r \in DOMAIN results :
        LET p == results[r].processor_id
        IN  (/\ QuiescentFor(r) /\ gen_log[r] = "ok" /\ ActiveProcessor(p)
             /\ (~post_processing_code[p] \/ interpreter[p] = "none"))
            => results[r].status = "completed" /\ results[r].processed_output = NULL

\* worker w passes from the loads and the render to the generation call
StartsGeneration(w) == exec[w].pc = "idle" /\ exec'[w].pc = "generating"

\* C23: the render context lists exactly the answers of the response whose
\* question is in the row's question_ids, by ascending question id, with
\* index 1..n, and carries the questionnaire id and the user id of the response
C23_RenderContext ==
    [][\A w \in ExecWorkers :
          StartsGeneration(w)
          => LET row == results[exec'[w].result_id]
                 ctx == exec'[w].context
                 qd == ctx.questions
             IN  /\ {qd[i].id : i \in 1..Len(qd)} = SeqToSet(row.question_ids) \cap answered
                 /\ \A i, j \in 1..Len(qd) : i < j => qd[i].id < qd[j].id
                 /\ \A i \in 1..Len(qd) : qd[i].index = i
                 /\ ctx.questionnaire_id = questionnaire_id[row.questionnaire_response_id]
                 /\ ctx.user_id = user_id[row.questionnaire_response_id]]_vars

\* a context of two answers was built for a row whose question_ids are
\* descending and hold a question twice
C23_Witness ==
    \E w \in ExecWorkers :
        /\ exec[w].pc = "generating"
        /\ exec[w].result_id \in DOMAIN results
        /\ LET qs == results[exec[w].result_id].question_ids
           IN  /\ Len(exec[w].context.questions) = 2
               /\ Len(qs) = 3
               /\ qs[1] > qs[3]

\* C24: every entry of a render context carries the question text stored on
\* the question response when it was answered
C24_SnapshotText ==
    \A w \in ExecWorkers :
        exec[w].pc = "generating"
        => \A i \in 1..Len(exec[w].context.questions) :
              exec[w].context.questions[i].text = AnsweredText

\* the execute job of row r is taken from the queue
ExecTakes(r) == CopiesIn(r, execQ') < CopiesIn(r, execQ)

\* C27: an execute run that finds the processor or the response of its row
\* gone writes failed with the matching error_message on that row alone and
\* starts no generation call
C27_MissingReference ==
    [][\A r \in DOMAIN results :
          (/\ ExecTakes(r)
           /\ \/ ~processors[results[r].processor_id].exists
              \/ results[r].questionnaire_response_id \notin questionnaire_responses)
          => /\ r \in DOMAIN results'
             /\ results'[r].status = "failed"
             /\ results'[r].error_message =
                   IF ~processors[results[r].processor_id].exists
                   THEN "Processor not found" ELSE "Questionnaire response not found"
             /\ \A i \in DOMAIN results \ {r} : i \in DOMAIN results' /\ results'[i] = results[i]
             /\ exec' = exec
             /\ gen_log'[r] = "none"]_vars

\* a row of a response that was removed has been executed
C27_Witness ==
    \E r \in DOMAIN results :
        /\ results[r].status = "failed"
        /\ results[r].error_message = "Questionnaire response not found"
        /\ results[r].questionnaire_response_id \notin questionnaire_responses
        /\ processors[results[r].processor_id].exists

\* C28: the generation call gets the stored temperature and max tokens of the
\* processor when they are set, and the defaults only when they are not
C28_StoredLlmValues ==
    \A w \in ExecWorkers :
        (exec[w].pc = "generating" /\ exec[w].result_id \in DOMAIN results)
        => LET p == results[exec[w].result_id].processor_id
           IN  /\ exec[w].call.temperature =
                     IF llm_temperature[p].is_set THEN llm_temperature[p].value
                     ELSE DefaultTemperature
               /\ exec[w].call.max_tokens =
                     IF llm_max_tokens[p].is_set THEN llm_max_tokens[p].value
                     ELSE DefaultMaxTokens

\* C30: a deleted row is never there again, a new row gets an id no row had,
\* an execute run changes only the row of its own id, and a run whose row is
\* gone changes no row and starts no generation call
C30_OldJobAfterRequeue ==
    /\ [][\A r \in 1..(next_id - 1) : r \notin DOMAIN results => r \notin DOMAIN results']_vars
    /\ [][\A i \in DOMAIN results' \ DOMAIN results : i = next_id /\ next_id' > next_id]_vars
    /\ [][\A r \in 1..(next_id - 1) :
             (ExecTakes(r) /\ r \notin DOMAIN results)
             => results' = results /\ exec' = exec /\ gen_log' = gen_log]_vars
    /\ [][\A w \in ExecWorkers :
             (exec[w].pc = "generating" /\ exec'[w].pc = "idle")
             => /\ DOMAIN results' = DOMAIN results
                /\ \A i \in DOMAIN results \ {exec[w].result_id} : results'[i] = results[i]]_vars

\* a requeue deleted the row of a running execute job and the new dispatch
\* has written a row; the old job then ended and the new row is as written
C30_Witness ==
    /\ ops["requeue"] = 1
    /\ \A w \in ExecWorkers : exec[w].pc = "idle"
    /\ \E r \in 1..(next_id - 1) :
          /\ r \notin DOMAIN results
          /\ gen_log[r] = "ok"
          /\ \E i \in DOMAIN results : i > r /\ results[i].status = "processing"

====
